---- MODULE Spec2Model ----
(***************************************************************************)
(* Model of rico_parser_go: main.go (scheduler loop, signal handler) and   *)
(* rico/rico.go (RateChecker: fetch, parse, compare, notify).              *)
(*                                                                         *)
(* A float64 is a record [nan, v]: v counts units of 10^-FracDigits, so    *)
(* every cell text with at most FracDigits fractional digits is exact; nan *)
(* is the IEEE not-a-number that strconv.ParseFloat returns for "NaN".     *)
(* A string is a tuple of one-character strings.                           *)
(***************************************************************************)
EXTENDS Integers, Sequences, FiniteSets, TLC

\* Cells of class currency-value per table row that the inputs enumerate.
MaxCells == 2
\* Rows of tbody.first-table-body that the inputs enumerate.
MaxRows == 2

\* Ticks dropped on a full ticker.C that the history counts.
MaxDropped == 2

\* "%.4f": digits after the decimal point in the message (rico.go:141).
FracDigits == 4

RECURSIVE Pow10(_)
Pow10(n) == IF n <= 0 THEN 1 ELSE 10 * Pow10(n - 1)

Scale == Pow10(FracDigits)

---------------------------------------------------------------------------
\* float64 values and Go's == on them

Num(n) == [nan |-> FALSE, v |-> n]
NaN == [nan |-> TRUE, v |-> 0]

\* Go's == on float64: NaN equals nothing, itself included.
FloatEq(a, b) == ~a.nan /\ ~b.nan /\ a.v = b.v

\* USDRate{}: both fields 0 (rico.go:21-24, 42).
ZeroRate == [Buy |-> Num(0), Sell |-> Num(0)]

---------------------------------------------------------------------------
\* Text conversions

Digits == <<"0", "1", "2", "3", "4", "5", "6", "7", "8", "9">>
IsDigit(c) == \E i \in 1..10 : Digits[i] = c
DigitVal(c) == (CHOOSE i \in 1..10 : Digits[i] = c) - 1

\* strings.ReplaceAll(s, old, new) for one-character old and new.
ReplaceAll(s, old, new) ==
    [i \in 1..Len(s) |-> IF s[i] = old THEN new ELSE s[i]]

\* Value of a digit string read as an integer.
RECURSIVE IntVal(_)
IntVal(s) ==
    IF Len(s) = 0 THEN 0
    ELSE 10 * IntVal(SubSeq(s, 1, Len(s) - 1)) + DigitVal(s[Len(s)])

\* Value, in units of 10^-FracDigits, of a digit string read as a fraction.
RECURSIVE FracVal(_, _)
FracVal(s, i) ==
    IF i > Len(s) THEN 0
    ELSE DigitVal(s[i]) * (Scale \div Pow10(i)) + FracVal(s, i + 1)

\* strconv.ParseFloat(s, 64) on the texts of the alphabet used here: "NaN" in
\* any case; otherwise an optional sign, digits with at most one ".", at least
\* one digit, and nothing else. A syntax error returns 0 and an error.
ParseFloat(s) ==
    LET signed == Len(s) > 0 /\ s[1] \in {"+", "-"}
        neg == Len(s) > 0 /\ s[1] = "-"
        body == IF signed THEN Tail(s) ELSE s
        dots == {i \in 1..Len(body) : body[i] = "."}
        wellFormed ==
            /\ \A i \in 1..Len(body) : IsDigit(body[i]) \/ body[i] = "."
            /\ Cardinality(dots) <= 1
            /\ \E i \in 1..Len(body) : IsDigit(body[i])
        dot == IF dots = {} THEN Len(body) + 1 ELSE CHOOSE i \in dots : TRUE
        mag == IntVal(SubSeq(body, 1, dot - 1)) * Scale
               + FracVal(SubSeq(body, dot + 1, Len(body)), 1)
        isNaN == /\ Len(s) = 3
                 /\ s[1] \in {"n", "N"} /\ s[2] \in {"a", "A"} /\ s[3] \in {"n", "N"}
    IN  IF isNaN THEN [val |-> NaN, err |-> FALSE]
        ELSE IF wellFormed
             THEN [val |-> Num(IF neg THEN -mag ELSE mag), err |-> FALSE]
             ELSE [val |-> Num(0), err |-> TRUE]

\* Decimal digits of a natural number, most significant first.
RECURSIVE IntDigits(_)
IntDigits(n) ==
    IF n < 10 THEN <<Digits[n + 1]>>
    ELSE Append(IntDigits(n \div 10), Digits[(n % 10) + 1])

\* The k low decimal digits of n, zero padded.
RECURSIVE PadDigits(_, _)
PadDigits(n, k) ==
    IF k = 0 THEN <<>>
    ELSE Append(PadDigits(n \div 10, k - 1), Digits[(n % 10) + 1])

\* fmt's %.4f of a float64.
FormatF4(f) ==
    IF f.nan THEN <<"N", "a", "N">>
    ELSE LET mag == IF f.v < 0 THEN -f.v ELSE f.v
         IN  (IF f.v < 0 THEN <<"-">> ELSE <<>>)
             \o IntDigits(mag \div Scale) \o <<".">> \o PadDigits(mag % Scale, FracDigits)

---------------------------------------------------------------------------
\* The source page (external): the rows matched by "tbody.first-table-body tr",
\* each row the texts of its td.currency-value cells, in document order.

CellTexts ==
    { <<"2", ",", "7">>,          \* comma decimal
      <<"2", ".", "7", "5">>,     \* period decimal
      <<"2", ",", "7", "5">>,     \* the same number with a comma
      <<"0", ",", "0">>,          \* a zero cell
      <<>>,                       \* an empty cell
      <<"n", "/", "a">>,          \* not a number
      <<"-", "2", ",", "7">>,     \* a signed number
      <<"N", "a", "N">> }         \* the text ParseFloat reads as NaN

Rows == UNION {[1..n -> CellTexts] : n \in 0..MaxCells}

\* Rows after the first (other currencies).
OtherRow == << <<"3", ",", "1">>, <<"3", ",", "2">> >>

Pages ==
    {<<>>} \cup
    {<<r>> \o [i \in 1..n |-> OtherRow] : r \in Rows, n \in 0..(MaxRows - 1)}

\* goquery Selection.Eq(i).Text(): the text of the i-th matched cell (from 0),
\* the empty string when there is no such cell.
EqText(row, i) == IF i + 1 <= Len(row) THEN row[i + 1] ELSE <<>>

\* rico.go:100-133: the Each callback acts on row 0 only; ret stays USDRate{}
\* when no row matches, and a field whose ParseFloat fails gets the 0 it returns.
ParsePage(page) ==
    IF Len(page) = 0 THEN ZeroRate
    ELSE LET s == page[1]
             buyStr == ReplaceAll(EqText(s, 0), ",", ".")
             sellStr == ReplaceAll(EqText(s, 1), ",", ".")
         IN  [Buy |-> ParseFloat(buyStr).val, Sell |-> ParseFloat(sellStr).val]

\* rico.go:119-127: which of the two ParseFloat calls returned an error (each
\* is logged); none when no row matches and the callback does not run.
ParseErrors(page) ==
    IF Len(page) = 0 THEN [buy |-> FALSE, sell |-> FALSE]
    ELSE LET s == page[1]
             buyStr == ReplaceAll(EqText(s, 0), ",", ".")
             sellStr == ReplaceAll(EqText(s, 1), ",", ".")
         IN  [buy |-> ParseFloat(buyStr).err, sell |-> ParseFloat(sellStr).err]

\* What fetchCurrentRate returns, over the pages the source can serve.
FetchedRates == {ParsePage(page) : page \in Pages}

\* The same with the parse errors it logged on the way.
Fetches == {[rate |-> ParsePage(page), errs |-> ParseErrors(page)] : page \in Pages}

\* Mutant of StoreRate: the assignment before the send is missing.
StoreRateSkipped(checker, r) == checker

\* rico.go:72: rc.USDRate = usdRate
StoreRate(checker, r) == [checker EXCEPT !.USDRate = r]

\* Mutant of IsZero: only the buy value is checked.
IsZeroBuyOnly(r) == FloatEq(r.Buy, Num(0))

\* Mutant of IsZero: the zero check is missing.
IsZeroSkipped(r) == FALSE

\* Mutant of IsZero: && in place of ||.
IsZeroBoth(r) == FloatEq(r.Buy, Num(0)) /\ FloatEq(r.Sell, Num(0))

\* rico.go:62: usdRate.Buy == 0 || usdRate.Sell == 0
IsZero(r) == FloatEq(r.Buy, Num(0)) \/ FloatEq(r.Sell, Num(0))

\* Mutant of NoChange: only the buy values are compared.
NoChangeBuyOnly(new, old) == FloatEq(new.Buy, old.Buy)

\* Mutant of NoChange: || in place of &&.
NoChangeEither(new, old) == FloatEq(new.Buy, old.Buy) \/ FloatEq(new.Sell, old.Sell)

\* rico.go:67: usdRate.Buy == rc.USDRate.Buy && usdRate.Sell == rc.USDRate.Sell
NoChange(new, old) == FloatEq(new.Buy, old.Buy) /\ FloatEq(new.Sell, old.Sell)

\* A valid observation in the data model's sense: neither field is the number 0.
ValidRate(r) == r.Buy # Num(0) /\ r.Sell # Num(0)

\* rico.go:138-153: the request parameters of the notification (the timestamp
\* of the text is left out: time is not modelled).
Message(chat, rate) ==
    [chat_id |-> chat, buy |-> FormatF4(rate.Buy), sell |-> FormatF4(rate.Sell)]

\* HTTP status codes a server answers with.
StatusOK == 200
Statuses == {StatusOK, 500}

---------------------------------------------------------------------------
\* State

VARIABLES
    env,        \* main.go:21-22, rico.go:36: botToken, channelID, and tzOK
                \*   (the time zone data loads)
    pc,         \* main goroutine: "main" (main.go:19), "fatal" (25, 30),
                \*   "startup" (45), "do" (rico.go:85), "body" (rico.go:95),
                \*   "send" (rico.go:155), "select" (51), "done" (54)
    rc,         \* rico.go:26-32: USDRate, botToken, channelID, location
    usdRate,    \* rico.go:55: CheckForRateChange's local usdRate
    ctxDone,    \* main.go:33: ctx has been canceled
    sigChan,    \* main.go:36: signals buffered in sigChan (capacity 1)
    hpc,        \* main.go:38-42, signal goroutine: "off", "wait", "got", "done"
    tickerOn,   \* main.go:47: time.NewTicker has run
    tickerC,    \* main.go:55: ticks buffered in ticker.C (capacity 1)
    dropped,    \* history: ticks the timer dropped on a full ticker.C since
                \*   the buffered tick was sent
    outbox,     \* history: notification requests issued (rico.go:155) by the
                \*   cycle in progress / last completed
    gets,       \* history: fetches issued (rico.go:85) by that cycle
    active,     \* history: invocations of CheckForRateChange not yet returned
    cyc,        \* history of the cycle in progress / last completed: what
                \*   started it, rc.USDRate at its start, whether ctx was
                \*   canceled when it started (lateStart) or before its fetch
                \*   completed (early), how its fetch and notification ended,
                \*   which cells failed to parse (errs)
    prev,       \* history of the cycle before it: how its fetch and
                \*   notification ended, the rate of a valid fetch
    lastValid   \* history: the rate of the most recent fetch that returned
                \*   a valid rate, ZeroRate when there has been none

vars == <<env, pc, rc, usdRate, ctxDone, sigChan, hpc, tickerOn, tickerC, dropped,
          outbox, gets, active, cyc, prev, lastValid>>

timezone == "Asia/Tbilisi"

NoErrors == [buy |-> FALSE, sell |-> FALSE]
NoCycle == [trigger |-> "none", pre |-> ZeroRate, lateStart |-> FALSE,
            early |-> FALSE, fetch |-> "none", send |-> "none", errs |-> NoErrors]
NoPrev == [fetch |-> "none", send |-> "none", rate |-> ZeroRate]

Init ==
    /\ env \in [botToken : {"", "token"}, channelID : {"", "channel"}, tzOK : BOOLEAN]
    /\ pc = "main"
    /\ rc = [USDRate |-> ZeroRate, botToken |-> "", channelID |-> "", location |-> ""]
    /\ usdRate = ZeroRate
    /\ ctxDone = FALSE
    /\ sigChan = 0
    /\ hpc = "off"
    /\ tickerOn = FALSE
    /\ tickerC = 0
    /\ dropped = 0
    /\ outbox = <<>>
    /\ gets = 0
    /\ active = 0
    /\ cyc = NoCycle
    /\ prev = NoPrev
    /\ lastValid = ZeroRate

Running == pc \notin {"main", "fatal", "done"}

---------------------------------------------------------------------------
\* main.go

\* Mutant of MainSetup: && in place of || in the check of main.go:24.
MainSetupBothMissing ==
    /\ pc = "main"
    /\ IF (env.botToken = "" /\ env.channelID = "") \/ ~env.tzOK
       THEN /\ pc' = "fatal"
            /\ UNCHANGED <<rc, hpc>>
       ELSE /\ pc' = "startup"
            /\ rc' = [USDRate |-> ZeroRate, botToken |-> env.botToken,
                      channelID |-> env.channelID, location |-> timezone]
            /\ hpc' = "wait"
    /\ UNCHANGED <<env, usdRate, ctxDone, sigChan, tickerOn, tickerC, dropped,
                   outbox, gets, active, cyc, prev, lastValid>>

\* main.go:21-42: configuration, NewRateChecker (rico.go:35-51), the context,
\* signal.Notify and the signal goroutine.
MainSetup ==
    /\ pc = "main"
    /\ IF env.botToken = "" \/ env.channelID = "" \/ ~env.tzOK
       THEN /\ pc' = "fatal"
            /\ UNCHANGED <<rc, hpc>>
       ELSE /\ pc' = "startup"
            /\ rc' = [USDRate |-> ZeroRate, botToken |-> env.botToken,
                      channelID |-> env.channelID, location |-> timezone]
            /\ hpc' = "wait"
    /\ UNCHANGED <<env, usdRate, ctxDone, sigChan, tickerOn, tickerC, dropped,
                   outbox, gets, active, cyc, prev, lastValid>>

\* The operating system delivers SIGINT or SIGTERM: signal.Notify's send to
\* sigChan does not block, a signal that finds the buffer full is dropped.
Signal ==
    /\ Running
    /\ sigChan = 0
    /\ sigChan' = 1
    /\ UNCHANGED <<env, pc, rc, usdRate, ctxDone, hpc, tickerOn, tickerC, dropped,
                   outbox, gets, active, cyc, prev, lastValid>>

\* main.go:39: s := <-sigChan
HandlerRecv ==
    /\ Running
    /\ hpc = "wait"
    /\ sigChan = 1
    /\ sigChan' = 0
    /\ hpc' = "got"
    /\ UNCHANGED <<env, pc, rc, usdRate, ctxDone, tickerOn, tickerC, dropped,
                   outbox, gets, active, cyc, prev, lastValid>>

\* Mutant of HandlerCancel: the goroutine logs the signal and ends without
\* calling cancel().
HandlerForgetsCancel ==
    /\ Running
    /\ hpc = "got"
    /\ hpc' = "done"
    /\ UNCHANGED <<env, pc, rc, usdRate, ctxDone, sigChan, tickerOn, tickerC, dropped,
                   outbox, gets, active, cyc, prev, lastValid>>

\* main.go:40-42: cancel(), and the goroutine ends.
HandlerCancel ==
    /\ Running
    /\ hpc = "got"
    /\ ctxDone' = TRUE
    /\ hpc' = "done"
    /\ cyc' = IF pc \in {"do", "body"} THEN [cyc EXCEPT !.early = TRUE] ELSE cyc
    /\ UNCHANGED <<env, pc, rc, usdRate, sigChan, tickerOn, tickerC, dropped,
                   outbox, gets, active, prev, lastValid>>

\* Mutant of Tick: ticker.C queues every tick.
TickQueues ==
    /\ Running
    /\ tickerOn
    /\ tickerC <= MaxDropped
    /\ tickerC' = tickerC + 1
    /\ UNCHANGED <<env, pc, rc, usdRate, ctxDone, sigChan, hpc, tickerOn, dropped,
                   outbox, gets, active, cyc, prev, lastValid>>

\* The runtime timer sends on ticker.C (capacity 1) without blocking; a tick
\* that finds the buffer full is dropped.
Tick ==
    /\ Running
    /\ tickerOn
    /\ IF tickerC = 0
       THEN tickerC' = 1 /\ dropped' = dropped
       ELSE dropped < MaxDropped /\ dropped' = dropped + 1 /\ tickerC' = tickerC
    /\ UNCHANGED <<env, pc, rc, usdRate, ctxDone, sigChan, hpc, tickerOn,
                   outbox, gets, active, cyc, prev, lastValid>>

\* Mutant of ReqCtxDone: the requests are built without ctx.
ReqCtxIgnored == FALSE

\* rico.go:80, 145: the requests are built with ctx, so client.Do and the
\* reading of the body fail once ctx is canceled.
ReqCtxDone == ctxDone

\* Mutant of AtSelect: a tick is served while a check is still running.
AtSelectOrChecking == pc \in {"select", "do", "body", "send"}

\* The main goroutine is blocked in the select of main.go:51.
AtSelect == pc = "select"

\* rico.go:54-55, 80-85: entry of CheckForRateChange up to the GET in flight.
CallCheck(trigger) ==
    /\ pc' = "do"
    /\ usdRate' = ZeroRate
    /\ outbox' = <<>>
    /\ gets' = 1
    /\ active' = active + 1
    /\ prev' = [fetch |-> cyc.fetch, send |-> cyc.send,
                rate |-> IF cyc.fetch = "ok" /\ ValidRate(usdRate)
                         THEN usdRate ELSE ZeroRate]
    /\ cyc' = [trigger |-> trigger, pre |-> rc.USDRate, lateStart |-> ctxDone,
               early |-> ctxDone, fetch |-> "pending", send |-> "none",
               errs |-> NoErrors]

\* CheckForRateChange returns to main (main.go:45-50 or 56-57); after the
\* startup call main creates the ticker and enters the loop.
ReturnToMain ==
    /\ pc' = "select"
    /\ tickerOn' = TRUE
    /\ active' = active - 1

\* Mutant of StartupCheck: main goes to the ticker loop without the check.
StartupCheckSkipped ==
    /\ pc = "startup"
    /\ pc' = "select"
    /\ tickerOn' = TRUE
    /\ UNCHANGED <<env, rc, usdRate, ctxDone, sigChan, hpc, tickerC, dropped,
                   outbox, gets, active, cyc, prev, lastValid>>

\* main.go:45: the immediate check on startup.
StartupCheck ==
    /\ pc = "startup"
    /\ CallCheck("startup")
    /\ UNCHANGED <<env, rc, ctxDone, sigChan, hpc, tickerOn, tickerC, dropped, lastValid>>

\* main.go:52-54: case <-ctx.Done()
SelectDone ==
    /\ AtSelect
    /\ ctxDone
    /\ pc' = "done"
    /\ UNCHANGED <<env, rc, usdRate, ctxDone, sigChan, hpc, tickerOn, tickerC, dropped,
                   outbox, gets, active, cyc, prev, lastValid>>

\* main.go:55-56: case <-ticker.C
SelectTick ==
    /\ AtSelect
    /\ tickerC >= 1
    /\ tickerC' = tickerC - 1
    /\ dropped' = 0
    /\ CallCheck("tick")
    /\ UNCHANGED <<env, rc, ctxDone, sigChan, hpc, tickerOn, lastValid>>

---------------------------------------------------------------------------
\* rico.go

\* Mutant of FetchFailed: log.Fatalf in place of log.Printf.
FetchFailedFatal ==
    /\ cyc' = [cyc EXCEPT !.fetch = "error"]
    /\ pc' = "fatal"
    /\ active' = active - 1
    /\ UNCHANGED <<env, rc, usdRate, ctxDone, sigChan, hpc, tickerOn, tickerC, dropped,
                   outbox, gets, prev, lastValid>>

\* Mutant of FetchFailed: the fetch is tried again within the cycle.
FetchFailedRetries ==
    /\ gets <= 1
    /\ gets' = gets + 1
    /\ pc' = "do"
    /\ UNCHANGED <<env, rc, usdRate, ctxDone, sigChan, hpc, tickerOn, tickerC, dropped,
                   outbox, active, cyc, prev, lastValid>>

\* rico.go:56-59: fetchCurrentRate returned an error; log and return.
FetchFailed ==
    /\ cyc' = [cyc EXCEPT !.fetch = "error"]
    /\ ReturnToMain
    /\ UNCHANGED <<env, rc, usdRate, ctxDone, sigChan, hpc, tickerC, dropped, outbox, gets, prev,
                   lastValid>>

\* rico.go:85-93: rc.client.Do(req) returns. A canceled context makes it
\* return an error; otherwise a transport error or a response with a status.
ClientDoGet ==
    /\ pc = "do"
    /\ \/ FetchFailed
       \/ /\ ~ReqCtxDone
          /\ \E status \in Statuses :
                IF status # StatusOK
                THEN FetchFailed
                ELSE /\ pc' = "body"
                     /\ UNCHANGED <<env, rc, usdRate, ctxDone, sigChan, hpc, tickerOn,
                                    tickerC, dropped, outbox, gets, active, cyc, prev, lastValid>>

\* rico.go:95-133 and 61-73: the body is read and parsed (a canceled context
\* or a broken connection fails the read), the rate is validated, compared,
\* stored, and the notification request is issued.
ReadBody ==
    /\ pc = "body"
    /\ \/ FetchFailed
       \/ /\ ~ReqCtxDone
          /\ \E f \in Fetches :
                LET r == f.rate IN
                /\ usdRate' = r
                /\ lastValid' = IF ValidRate(r) THEN r ELSE lastValid
                /\ IF IsZero(r)
                   THEN /\ cyc' = [cyc EXCEPT !.fetch = "ok", !.errs = f.errs]
                        /\ ReturnToMain
                        /\ UNCHANGED <<rc, outbox>>
                   ELSE IF NoChange(r, rc.USDRate)
                   THEN /\ cyc' = [cyc EXCEPT !.fetch = "ok", !.errs = f.errs]
                        /\ ReturnToMain
                        /\ UNCHANGED <<rc, outbox>>
                   ELSE /\ rc' = StoreRate(rc, r)
                        /\ outbox' = Append(outbox, Message(rc.channelID, r))
                        /\ cyc' = [cyc EXCEPT !.fetch = "ok", !.send = "pending",
                                              !.errs = f.errs]
                        /\ pc' = "send"
                        /\ UNCHANGED <<tickerOn, active>>
          /\ UNCHANGED <<env, ctxDone, sigChan, hpc, tickerC, dropped, gets, prev>>

\* Mutant of SendDone: a failed send restores the Rate stored before it.
SendDoneRollsBack ==
    /\ pc = "send"
    /\ \/ /\ cyc' = [cyc EXCEPT !.send = "fail"]
          /\ rc' = [rc EXCEPT !.USDRate = cyc.pre]
       \/ /\ ~ReqCtxDone
          /\ cyc' = [cyc EXCEPT !.send = "ok"]
          /\ rc' = rc
    /\ ReturnToMain
    /\ UNCHANGED <<env, usdRate, ctxDone, sigChan, hpc, tickerC, dropped, outbox, gets,
                   prev, lastValid>>

\* rico.go:155-166 and 73-76: the notification's client.Do returns: an error
\* (always, when the context is canceled) or a response; CheckForRateChange
\* logs a failure and returns.
SendDone ==
    /\ pc = "send"
    /\ \/ cyc' = [cyc EXCEPT !.send = "fail"]
       \/ /\ ~ReqCtxDone
          /\ \E status \in Statuses :
                cyc' = [cyc EXCEPT !.send = IF status = StatusOK THEN "ok" ELSE "fail"]
    /\ ReturnToMain
    /\ UNCHANGED <<env, rc, usdRate, ctxDone, sigChan, hpc, tickerC, dropped, outbox, gets, prev,
                   lastValid>>

Next ==
    \/ MainSetup
    \/ Signal
    \/ HandlerRecv
    \/ HandlerCancel
    \/ Tick
    \/ StartupCheck
    \/ SelectDone
    \/ SelectTick
    \/ ClientDoGet
    \/ ReadBody
    \/ SendDone

Spec == Init /\ [][Next]_vars

\* Scheduling: the Go runtime runs every runnable goroutine (weak fairness of
\* the steps of main and of the signal goroutine); client.Do and the reading
\* of the body return, at the latest at the client's 10 s Timeout
\* (rico.go:46); select picks uniformly at random among its ready cases, so a
\* case that is ready at infinitely many selects is taken (strong fairness
\* of SelectDone).
FairSpec ==
    /\ Spec
    /\ WF_vars(MainSetup)
    /\ WF_vars(HandlerRecv)
    /\ WF_vars(HandlerCancel)
    /\ WF_vars(StartupCheck)
    /\ WF_vars(ClientDoGet)
    /\ WF_vars(ReadBody)
    /\ WF_vars(SendDone)
    /\ SF_vars(SelectDone)

---------------------------------------------------------------------------
\* Properties of the check cycle (rico.go)

\* The fetch of the current or last cycle returned a rate without error.
Fetched == cyc.trigger # "none" /\ cyc.fetch = "ok"

\* The cycle before the current or last one fetched the valid rate r.
PrevFetchedValid(r) == prev.fetch = "ok" /\ ValidRate(r) /\ prev.rate = r

\* The text t is a number written with exactly FracDigits digits after ".".
FourDecimals(t) ==
    /\ Len(t) > FracDigits + 1
    /\ t[Len(t) - FracDigits] = "."
    /\ \A i \in (Len(t) - FracDigits + 1)..Len(t) : IsDigit(t[i])

\* C1 (as claimed): a cycle that fetches a valid rate equal in both fields to
\* the stored Rate sends nothing and leaves the stored Rate alone, and of two
\* consecutive cycles that fetch the same valid rate the second sends nothing.
C1_UnchangedRateIsSilent ==
    /\ (Fetched /\ ValidRate(usdRate) /\ usdRate = cyc.pre)
          => (outbox = <<>> /\ rc.USDRate = cyc.pre)
    /\ (Fetched /\ PrevFetchedValid(usdRate)) => outbox = <<>>

\* C1 restricted to rates whose fields are numbers: what the code does keep.
C1_NumericRateIsSilent ==
    (Fetched /\ ValidRate(usdRate) /\ ~usdRate.Buy.nan /\ ~usdRate.Sell.nan)
       => /\ usdRate = cyc.pre => (outbox = <<>> /\ rc.USDRate = cyc.pre)
          /\ PrevFetchedValid(usdRate) => outbox = <<>>

\* C2: a cycle that fetches a valid rate differing from the stored Rate in buy
\* or in sell makes exactly one notification attempt, whose text carries the
\* new buy and sell with four decimals, and the stored Rate is the new rate.
C2_ChangedRateNotifiesOnce ==
    (/\ Fetched
     /\ ValidRate(usdRate)
     /\ ~(FloatEq(usdRate.Buy, cyc.pre.Buy) /\ FloatEq(usdRate.Sell, cyc.pre.Sell)))
       => /\ Len(outbox) = 1
          /\ outbox[1].chat_id = env.channelID
          /\ ParseFloat(outbox[1].buy).val = usdRate.Buy
          /\ ParseFloat(outbox[1].sell).val = usdRate.Sell
          /\ ~usdRate.Buy.nan => FourDecimals(outbox[1].buy)
          /\ ~usdRate.Sell.nan => FourDecimals(outbox[1].sell)
          /\ rc.USDRate = usdRate

\* C2 witness: a tick cycle after a valid one changed only the sell value and
\* has returned.
C2_Witness ==
    /\ pc = "select"
    /\ cyc.trigger = "tick"
    /\ Fetched
    /\ ValidRate(usdRate)
    /\ PrevFetchedValid(cyc.pre)
    /\ usdRate.Buy = cyc.pre.Buy
    /\ usdRate.Sell # cyc.pre.Sell
    /\ Len(outbox) = 1
    /\ rc.USDRate = usdRate

\* C3: a cycle whose parsed rate has buy = 0 or sell = 0 sends nothing and
\* leaves the stored Rate as it was.
C3_ZeroRateIsIgnored ==
    (Fetched /\ ~ValidRate(usdRate))
       => (outbox = <<>> /\ rc.USDRate = cyc.pre /\ cyc.send = "none")

\* C3 witness: with a non-zero Rate stored, a cycle parsed a non-zero buy and
\* a zero sell and has returned.
C3_Witness ==
    /\ pc = "select"
    /\ Fetched
    /\ cyc.pre # ZeroRate
    /\ usdRate.Buy # Num(0)
    /\ usdRate.Buy # cyc.pre.Buy
    /\ usdRate.Sell = Num(0)

\* C4 (as claimed): after a failed send the stored Rate stays at the fetched
\* value, and a following cycle that fetches the identical rate sends nothing.
C4_FailedSendIsNotRetried ==
    /\ cyc.send = "fail" => rc.USDRate = usdRate
    /\ (prev.send = "fail" /\ Fetched /\ PrevFetchedValid(usdRate)) => outbox = <<>>

\* C4 restricted to rates whose fields are numbers: what the code does keep.
C4_NumericFailedSendIsNotRetried ==
    /\ cyc.send = "fail" => rc.USDRate = usdRate
    /\ (/\ prev.send = "fail" /\ Fetched /\ PrevFetchedValid(usdRate)
        /\ ~usdRate.Buy.nan /\ ~usdRate.Sell.nan)
          => (outbox = <<>> /\ rc.USDRate = usdRate)

\* C5: a cycle before whose fetch completed the context was canceled ends in
\* a fetch error: the stored Rate is as at its start and nothing is sent.
C5_CanceledFetchChangesNothing ==
    cyc.early
       => /\ rc.USDRate = cyc.pre
          /\ outbox = <<>>
          /\ cyc.send = "none"
          /\ cyc.fetch \in {"pending", "error"}
          /\ pc # "send"

\* C5 witness: the context was canceled while a tick cycle's response body
\* was being read, with a non-zero Rate stored; the cycle has returned.
C5_Witness ==
    /\ pc = "select"
    /\ cyc.trigger = "tick"
    /\ cyc.early
    /\ cyc.fetch = "error"
    /\ cyc.pre # ZeroRate

\* C6: the stored Rate is the rate of the most recent fetch that returned a
\* valid rate, the zero Rate when there has been none.
C6_StoredIsLastValidFetch ==
    rc.USDRate = lastValid

\* C6 witness: a valid fetch whose send failed, then a cycle that parsed an
\* invalid rate; the Rate of the first is still stored.
C6_Witness ==
    /\ pc = "select"
    /\ prev.send = "fail"
    /\ Fetched
    /\ ~ValidRate(usdRate)
    /\ usdRate # ZeroRate
    /\ lastValid # ZeroRate
    /\ rc.USDRate = lastValid

---------------------------------------------------------------------------
\* Properties of the scheduler loop (main.go)

\* C7: at most one invocation of CheckForRateChange is in progress, and one is
\* in progress exactly while main is inside it: a cycle starts only when the
\* one before has returned.
C7_CyclesAreSequential ==
    /\ active \in {0, 1}
    /\ active = 1 <=> pc \in {"do", "body", "send"}
    /\ pc \in {"select", "done"} => cyc.fetch # "pending" /\ cyc.send # "pending"

\* C7 witness: a tick cycle is waiting for its notification while the next
\* tick is already buffered and the signal goroutine has canceled ctx.
C7_Witness ==
    /\ pc = "send"
    /\ cyc.trigger = "tick"
    /\ tickerC = 1
    /\ ctxDone
    /\ active = 1

\* C8: the first cycle is the startup check, run once, before the ticker
\* exists and so before any tick is consumed; every other cycle starts by
\* taking exactly one tick from ticker.C, and every tick taken starts a cycle.
C8_StartupThenOnePerTick ==
    /\ [](/\ pc \in {"select", "done"} => cyc.trigger \in {"startup", "tick"}
          /\ tickerOn => cyc.trigger \in {"startup", "tick"}
          /\ cyc.trigger = "startup" <=> (cyc.trigger # "none" /\ prev.fetch = "none"))
    /\ [][/\ active' > active =>
               \/ /\ pc = "startup" /\ cyc.trigger = "none" /\ cyc'.trigger = "startup"
                  /\ ~tickerOn /\ tickerC = 0 /\ tickerC' = 0
               \/ /\ pc = "select" /\ cyc.trigger # "none" /\ cyc'.trigger = "tick"
                  /\ tickerC = 1 /\ tickerC' = 0
          /\ tickerC' < tickerC => active' = active + 1]_vars

\* C8 witness: the second tick cycle has been started by taking a tick.
C8_Witness ==
    /\ pc = "do"
    /\ cyc.trigger = "tick"
    /\ prev.fetch \notin {"none", "pending"}
    /\ PrevFetchedValid(cyc.pre)
    /\ tickerC = 0

\* C9: once a signal has been delivered to sigChan, main eventually returns;
\* on the way, a request in flight when ctx is canceled ends in an error.
C9_SignalLeadsToExit ==
    /\ (sigChan = 1) ~> (pc = "done")
    /\ [][(ctxDone /\ pc \in {"do", "body"} /\ pc' # pc)
             => (pc' = "select" /\ cyc'.fetch = "error")]_vars
    /\ [][(ctxDone /\ pc = "send" /\ pc' # pc)
             => (pc' = "select" /\ cyc'.send = "fail")]_vars

\* C9 witness: main has returned after a signal that arrived while a fetch
\* was in flight (the fetch was canceled).
C9_Witness ==
    /\ pc = "done"
    /\ hpc = "done"
    /\ cyc.early
    /\ ~cyc.lateStart
    /\ cyc.fetch = "error"

\* C10 (as claimed): no check cycle is started while ctx is canceled.
C10_NoCycleStartsAfterCancel ==
    ~cyc.lateStart

\* C10 (amended): with ctx canceled, the select leaves the loop unless a tick
\* is buffered, in which case it may start a cycle; a cycle started with ctx
\* canceled (the startup check included) fails its fetch, leaves the stored
\* Rate as it was and sends nothing.
C10_CycleAfterCancelIsInert ==
    /\ [](cyc.lateStart =>
             /\ cyc.fetch \in {"pending", "error"}
             /\ cyc.send = "none"
             /\ outbox = <<>>
             /\ rc.USDRate = cyc.pre
             /\ pc \in {"do", "select", "done"})
    /\ [][(pc = "select" /\ ctxDone /\ pc' # "select")
             => (pc' = "done" \/ (tickerC = 1 /\ tickerC' = 0 /\ cyc'.lateStart))]_vars

\* C10 witness: a tick cycle started with ctx canceled has returned to the
\* select with a non-zero Rate stored.
C10_Witness ==
    /\ pc = "select"
    /\ cyc.trigger = "tick"
    /\ cyc.lateStart
    /\ cyc.fetch = "error"
    /\ rc.USDRate # ZeroRate

---------------------------------------------------------------------------
\* Error handling

\* The cycle before the current or last one failed: its fetch returned an
\* error or an invalid rate, or its notification failed.
PrevFailed ==
    \/ prev.fetch = "error"
    \/ prev.fetch = "ok" /\ prev.rate = ZeroRate
    \/ prev.send = "fail"

\* C11: a cycle that ends, however it ends, returns main to the select: main
\* reaches "done" only through cancellation and "fatal" only before the first
\* cycle; and a cycle after a failed one that fetches a valid changed rate
\* stores it and makes its notification attempt.
C11_FailuresAreAbsorbed ==
    /\ [](/\ pc = "fatal" => cyc.trigger = "none"
          /\ pc = "done" => ctxDone
          /\ (/\ PrevFailed /\ Fetched /\ ValidRate(usdRate)
              /\ ~(FloatEq(usdRate.Buy, cyc.pre.Buy) /\ FloatEq(usdRate.Sell, cyc.pre.Sell)))
                => (Len(outbox) = 1 /\ rc.USDRate = usdRate /\ cyc.send # "none"))
    /\ [][active' < active => pc' = "select"]_vars

\* C11 witness: after a cycle whose fetch failed, a cycle fetched a valid
\* rate, stored it, and its notification was accepted.
C11_Witness ==
    /\ pc = "select"
    /\ prev.fetch = "error"
    /\ Fetched
    /\ ValidRate(usdRate)
    /\ rc.USDRate = usdRate
    /\ Len(outbox) = 1
    /\ cyc.send = "ok"

\* C12: a cycle issues one fetch and at most one notification request, the
\* request only after a fetch that returned a valid rate differing from the
\* stored one; a failed fetch or a failed send ends the cycle.
C12_OneGetAtMostOnePost ==
    /\ gets <= 1
    /\ cyc.trigger # "none" => gets = 1
    /\ Len(outbox) <= 1
    /\ outbox # <<>> =>
          /\ Fetched
          /\ ValidRate(usdRate)
          /\ ~(FloatEq(usdRate.Buy, cyc.pre.Buy) /\ FloatEq(usdRate.Sell, cyc.pre.Sell))
    /\ cyc.fetch = "error" => (pc \in {"select", "done"} /\ outbox = <<>>)
    /\ cyc.send = "fail" => pc \in {"select", "done"}

\* C12 witness: a cycle whose notification failed has returned, having issued
\* one fetch and one notification request.
C12_Witness ==
    /\ pc = "select"
    /\ cyc.send = "fail"
    /\ gets = 1
    /\ Len(outbox) = 1

\* A required setting is missing or the time zone does not load.
BadConfig == env.botToken = "" \/ env.channelID = "" \/ ~env.tzOK

\* C13: with a required setting missing or the time zone not loading, the
\* process ends in the fatal exit, with no cycle, no fetch, no notification,
\* no signal goroutine and no ticker.
C13_BadConfigFailsFast ==
    /\ [](BadConfig =>
             /\ pc \in {"main", "fatal"}
             /\ cyc.trigger = "none"
             /\ gets = 0
             /\ outbox = <<>>
             /\ active = 0
             /\ hpc = "off"
             /\ ~tickerOn
             /\ rc.USDRate = ZeroRate)
    /\ BadConfig ~> (pc = "fatal")

\* C13 witness: both settings are present, the time zone does not load, and
\* the process has exited.
C13_Witness ==
    /\ pc = "fatal"
    /\ env.botToken # ""
    /\ env.channelID # ""
    /\ ~env.tzOK

---------------------------------------------------------------------------
\* Values and parsing

\* C14 (as claimed): the stored Rate never has a negative field.
C14_StoredRateNonNegative ==
    rc.USDRate.Buy.v >= 0 /\ rc.USDRate.Sell.v >= 0

C16_StoredBeforeSent ==
    /\ [](outbox # <<>> =>
             /\ rc.USDRate = usdRate
             /\ outbox[Len(outbox)].buy = FormatF4(rc.USDRate.Buy)
             /\ outbox[Len(outbox)].sell = FormatF4(rc.USDRate.Sell)
             /\ ParseFloat(outbox[Len(outbox)].buy).val = rc.USDRate.Buy
             /\ ParseFloat(outbox[Len(outbox)].sell).val = rc.USDRate.Sell)
    /\ [][(outbox' # outbox /\ outbox' # <<>>)
             => (pc' = "send" /\ rc'.USDRate = usdRate')]_vars

\* C16 witness: a notification is in flight for a rate that replaced a
\* different non-zero stored Rate.
C16_Witness ==
    /\ pc = "send"
    /\ Len(outbox) = 1
    /\ cyc.pre # ZeroRate
    /\ rc.USDRate # cyc.pre
    /\ rc.USDRate = usdRate

\* C17: the stored Rate changes only in the step of a cycle that fetched a
\* valid rate differing from it, and becomes that rate; every other step
\* (tick, signal, cancel, failed or invalid or unchanged fetch, the send's
\* return) leaves it alone; token, channel and location never change once
\* the checker is constructed.
C17_OnlyTheUpdateStepWrites ==
    /\ [][rc'.USDRate # rc.USDRate =>
             /\ pc = "body" /\ pc' = "send"
             /\ cyc'.fetch = "ok"
             /\ ValidRate(usdRate')
             /\ rc'.USDRate = usdRate']_vars
    /\ [][pc # "main" =>
             /\ rc'.botToken = rc.botToken
             /\ rc'.channelID = rc.channelID
             /\ rc'.location = rc.location]_vars

\* C17 witness: a failed send has returned with ctx canceled and a tick
\* buffered; the Rate stored by the cycle is still there.
C17_Witness ==
    /\ pc = "select"
    /\ cyc.send = "fail"
    /\ ctxDone
    /\ tickerC = 1
    /\ cyc.pre # ZeroRate
    /\ rc.USDRate = usdRate
    /\ rc.USDRate # cyc.pre

\* C18: the stored Rate is the zero Rate or has both fields non-zero, and
\* once it is not the zero Rate it never is again.
C18_ZeroOrFullyNonZero ==
    /\ [](rc.USDRate = ZeroRate \/ ValidRate(rc.USDRate))
    /\ [][rc.USDRate # ZeroRate => rc'.USDRate # ZeroRate]_vars

\* C18 witness: with a non-zero Rate stored, a cycle fetched a page without
\* rows (the zero rate) and has returned.
C18_Witness ==
    /\ pc = "select"
    /\ Fetched
    /\ usdRate = ZeroRate
    /\ rc.USDRate # ZeroRate
    /\ ValidRate(rc.USDRate)

\* C19: ticker.C never holds more than one tick, however many the timer
\* produced during a cycle, and a cycle started by a tick leaves none behind:
\* the cycle after it needs a new tick.
C19_TicksDoNotAccumulate ==
    /\ [](tickerC \in {0, 1})
    /\ [][(active' > active /\ cyc'.trigger = "tick") => tickerC' = 0]_vars

\* C19 witness: during a tick cycle still waiting for its notification the
\* timer has produced a buffered tick and dropped at least two more.
C19_Witness ==
    /\ pc = "send"
    /\ cyc.trigger = "tick"
    /\ tickerC = 1
    /\ dropped >= 2

====
